---- MODULE Spec2Model ----
(***************************************************************************)
(* State-machine model of canary/S3ObjectTransport.cpp: the address-pinned *)
(* connection fabric, the signed-request pipeline, the single-shot object  *)
(* operations and the multipart upload orchestrator.                       *)
(*                                                                         *)
(* Every handler of the source is a pure operator from a snapshot of the   *)
(* transport (the record built by State) to the snapshot it leaves behind; *)
(* an action picks the handler's inputs and installs the result.  Nested   *)
(* callbacks (a stream completion that finalizes the upload, which issues  *)
(* AbortMultipartUpload, which signs a request) are operator composition.  *)
(***************************************************************************)
EXTENDS Integers, Sequences, FiniteSets, TLC

VARIABLES
    m_connManagers,          \* Vector of connection managers (the address each is pinned to)
    m_connManagersUseCount,  \* std::atomic<uint32_t> placement counter
    m_activeRequestsCount,   \* std::atomic in-flight request counter
    requests,                \* every MakeSignedRequest call so far, keyed <<operation, part, n-th such call>>
    uploadState,             \* the MultipartUploadState of the upload in progress
    uploadProcessor,         \* the part processor's view of that upload
    finishedCalls,           \* invocations of the user's PutObjectMultipartFinished callback
    m_addressCache,          \* Vector<String>: the address book filled by WarmDNSCache
    downloadState,           \* the MultipartDownloadState of the download in progress
    downloadProcessor,       \* the download processor's view of that download
    downloadFinishedCalls,   \* invocations of the user's GetObjectMultipartFinished callback
    transferStatus,          \* AddTransferStatusDataPoint calls: how many with true, with false
    picked,                  \* manager indices returned to direct GetNextConnManager callers
    warm,                    \* the thread running WarmDNSCache and the resolve it awaits
    resolver,                \* number of A records in the host resolver's cache for the endpoint
    callers,                 \* threads inside GetNextConnManager and what they returned
    called                   \* the last fabric method a direct caller ran, and the state it found

vars == << m_connManagers, m_connManagersUseCount, m_activeRequestsCount,
           requests, uploadState, uploadProcessor, finishedCalls,
           m_addressCache, downloadState, downloadProcessor, downloadFinishedCalls,
           transferStatus, picked, warm, resolver, callers, called >>

\* What no handler of the transport object itself writes.
others == << picked, warm, resolver, callers, called >>

----------------------------------------------------------------------------
(* Program constants *)

MaxStreams == 500
TransfersPerAddress == 10
S3GetObjectResponseStatus_PartialContent == 206
AWS_ERROR_SUCCESS == 0
\* aws-c-common's generic error; only its being non-zero and distinct
\* from the injected error codes below matters.
AWS_ERROR_UNKNOWN == 3

(* Bounds of the model *)

MaxManagers == 3      \* connection managers spawned (direct placement runs)
MaxCalls == 34        \* direct GetNextConnManager calls
MaxRequests == 2      \* single-shot operations issued by the user
MaxParts == 2         \* num_parts of the multipart upload
MaxRetries == 1       \* part attempts that fail and are re-enqueued, in total
MaxObserved == 1      \* operations issued in the runs that record callback arguments
MaxETags == 3         \* length of the ETag vector handed to CompleteMultipartUpload directly
MaxResolves == 2      \* resolves one WarmDNSCache call waits for
MaxUseCount == 2      \* placements between two purges (fabric methods called in sequence)
MaxResolverAddresses == 2   \* A records the resolver's cache comes to hold
MaxCallers == 2       \* threads calling GetNextConnManager concurrently
MaxChunks == 2        \* body chunks of one CreateMultipartUpload response

(* Input domains *)

SigningErrorCodes == {AWS_ERROR_SUCCESS, 21}
ConnErrorCodes == {AWS_ERROR_SUCCESS, 22}
StreamErrorCodes == {AWS_ERROR_SUCCESS, 23}
ConnStates == {"null", "closed", "open"}
StatusCodes == {200, 204, 206, 500}
HeaderNames == {"ETag", "etag"}
\* The server derives a part's ETag from its content: every response to an
\* upload of part index i that carries an ETag carries ETagOf(i).
\* A string is the sequence of its characters; S3 quotes its ETags.
ETagOf(part) ==
    << << "\"", "e", "0", "\"" >>, << "\"", "e", "1", "\"" >>,
       << "\"", "e", "2", "\"" >>, << "\"", "e", "3", "\"" >> >>[part + 1]
\* A response body chunk is a sequence of tokens; the two tags are tokens.
OpenTag == "<UploadId>"
CloseTag == "</UploadId>"
BodyChunks == { << "<r>", OpenTag, "U1", CloseTag, "</r>" >>, << "<r>", "</r>" >> }

\* A shared_ptr<String>: <<>> is nullptr, <<v>> points to the string v.
nullptr == << >>
Ptr(v) == << v >>

(* Snapshot of the transport *)

State ==
    [ mgrs     |-> m_connManagers,
      useCount |-> m_connManagersUseCount,
      active   |-> m_activeRequestsCount,
      reqs     |-> requests,
      up       |-> uploadState,
      proc     |-> uploadProcessor,
      fin      |-> finishedCalls,
      book     |-> m_addressCache,
      down     |-> downloadState,
      dproc    |-> downloadProcessor,
      dfin     |-> downloadFinishedCalls,
      status   |-> transferStatus,
      trace    |-> FALSE ]      \* whether on_acquired's connection argument is recorded

\* The same snapshot in runs that record the arguments of every callback.
StateObserved == [State EXCEPT !.trace = TRUE]

Apply(s) ==
    /\ m_connManagers' = s.mgrs
    /\ m_connManagersUseCount' = s.useCount
    /\ m_activeRequestsCount' = s.active
    /\ requests' = s.reqs
    /\ uploadState' = s.up
    /\ uploadProcessor' = s.proc
    /\ finishedCalls' = s.fin
    /\ m_addressCache' = s.book
    /\ downloadState' = s.down
    /\ downloadProcessor' = s.dproc
    /\ downloadFinishedCalls' = s.dfin
    /\ transferStatus' = s.status

----------------------------------------------------------------------------
(* Connection fabric *)

\* GetNextConnManager's index arithmetic; oldUseCount is what fetch_add(1) returned.
\* The counter is a uint32_t; it stays far below 2^32 in every run explored
\* here, so its wrap-around is not modelled.
GetNextConnManagerIndex(oldUseCount, numManagers) ==
    ((oldUseCount + 1) \div TransfersPerAddress) % numManagers

\* GetNextConnManager with a non-empty manager list: <<snapshot after, index returned>>.
GetNextConnManager(s) ==
    << [s EXCEPT !.useCount = @ + 1],
       GetNextConnManagerIndex(s.useCount, Len(s.mgrs)) >>

\* What one ResolveHost completion delivers: a batch of host addresses.
HostAddresses ==
    { [record_type |-> "A", address |-> "a1"],
      [record_type |-> "A", address |-> "a2"],
      [record_type |-> "AAAA", address |-> "v6"] }

\* The resolver answers with at most one address per record type, or with
\* nothing; some answers mix the types, in either order.
Batches ==
    { << >>,
      << [record_type |-> "A", address |-> "a1"] >>,
      << [record_type |-> "A", address |-> "a2"] >>,
      << [record_type |-> "A", address |-> "a1"], [record_type |-> "AAAA", address |-> "v6"] >>,
      << [record_type |-> "AAAA", address |-> "v6"], [record_type |-> "A", address |-> "a2"] >>,
      << [record_type |-> "A", address |-> "a1"], [record_type |-> "A", address |-> "a2"] >> }

\* The numTransfers values WarmDNSCache is called with.
TransferCounts == {1, 10, 11}

\* WarmDNSCache's desiredNumberOfAddresses.
DesiredNumberOfAddresses(numTransfers) ==
    (numTransfers \div TransfersPerAddress)
        + (IF (numTransfers % TransfersPerAddress) > 0 THEN 1 ELSE 0)

\* The completion callback WarmDNSCache hands to ResolveHost, up to the
\* loop's end: every address that is not an AAAA record is appended.
RECURSIVE WarmDNSCache_OnHostResolved(_, _)
WarmDNSCache_OnHostResolved(cache, addresses) ==
    IF addresses = << >> THEN cache
    ELSE WarmDNSCache_OnHostResolved(
             IF Head(addresses).record_type = "AAAA"
             THEN cache
             ELSE Append(cache, Head(addresses).address),
             Tail(addresses))

\* The second loop of WarmDNSCache run by one thread alone, answers being
\* what the successive resolves deliver: <<the address cache when the loop
\* ends, the answers not consumed>>.  With too few answers the loop is
\* still waiting; WarmDNSCache_Returns tells whether it has ended.
RECURSIVE WarmDNSCache_Loop(_, _, _)
WarmDNSCache_Loop(cache, desiredNumberOfAddresses, answers) ==
    IF Len(cache) >= desiredNumberOfAddresses \/ answers = << >>
    THEN << cache, answers >>
    ELSE WarmDNSCache_Loop(WarmDNSCache_OnHostResolved(cache, Head(answers)),
                           desiredNumberOfAddresses, Tail(answers))

WarmDNSCache_Returns(numTransfers, answers) ==
    LET end == WarmDNSCache_Loop(<< >>, DesiredNumberOfAddresses(numTransfers), answers)
    IN  Len(end[1]) >= DesiredNumberOfAddresses(numTransfers) /\ end[2] = << >>

\* WarmDNSCache run by one thread alone, once the resolver holds enough A records.
WarmDNSCache(s, numTransfers, answers) ==
    [s EXCEPT !.book =
        WarmDNSCache_Loop(<< >>, DesiredNumberOfAddresses(numTransfers), answers)[1]]

SeedAddressCache(s, address) ==
    [s EXCEPT !.book = << address >>]

PurgeConnectionManagers(s) ==
    [s EXCEPT !.mgrs = << >>, !.useCount = 0]

\* The loop of SpawnConnectionManagers from address i on: one manager per
\* address, pinned to it (a manager is represented by that address).
RECURSIVE SpawnConnectionManagers_Loop(_, _, _)
SpawnConnectionManagers_Loop(mgrs, book, i) ==
    IF i > Len(book) THEN mgrs
    ELSE SpawnConnectionManagers_Loop(Append(mgrs, book[i]), book, i + 1)

\* Mutant: the managers are appended to the list left by earlier spawns.
SpawnConnectionManagers_NoPurge(s) ==
    [s EXCEPT !.mgrs = SpawnConnectionManagers_Loop(s.mgrs, s.book, 1)]

SpawnConnectionManagers(s) ==
    LET purged == PurgeConnectionManagers(s)
    IN  [purged EXCEPT !.mgrs = SpawnConnectionManagers_Loop(purged.mgrs, purged.book, 1)]

\* GetNextConnManager's first statement, run by one thread alone: with no
\* manager, WarmDNSCache(1) and SpawnConnectionManagers.
GetNextConnManager_WarmAndSpawn(s, answers) ==
    IF Len(s.mgrs) = 0
    THEN SpawnConnectionManagers(WarmDNSCache(s, 1, answers))
    ELSE s

----------------------------------------------------------------------------
(* Signed request pipeline *)

\* One MakeSignedRequest call: the request, the closures' captures, the
\* pipeline position (pc) and what has been observed of it so far.
NewRequest(op, owner, part, pathId, etags, retrieve, capErr) ==
    [ op        |-> op,          \* which operation assembled the request
      owner     |-> owner,       \* "user", or "upload" / "download" for the orchestrator's own
      part      |-> part,        \* GetObject: partNumber; UploadPart: part index
      pathId    |-> pathId,      \* the uploadId written into the path
      etags     |-> etags,       \* CompleteMultipartUpload: the ETag vector of the body
      capErr    |-> capErr,      \* AbortMultipartUpload: errorCode captured by the finished lambda
      etag      |-> IF retrieve THEN Ptr(<< >>) ELSE nullptr,   \* PutObject's etag buffer
      body      |-> << >>,       \* CompleteMultipartUpload: the XML body
      uploadId  |-> << >>,       \* CreateMultipartUpload's uploadId buffer
      pc        |-> "signing",
      mgr       |-> -1,
      signs     |-> 1,
      acquires  |-> 0,
      streams   |-> 0,
      activated |-> FALSE,
      acquired  |-> << >>,       \* invocations of the SignedRequestCallback: <<connection (where
                                 \* recorded), error code, streams opened so far>>
      signObs   |-> << >>,       \* where observed: <<error code the signer reported>>
      acqObs    |-> << >>,       \* where observed: <<connection, error code, whether
                                 \* NewClientStream opens>> of the acquisition result
      bodyObs   |-> << >>,       \* where observed: the body chunks delivered so far
      pending   |-> << >>,       \* the acquisition lambda is between SendRequest and its
                                 \* callback(conn, connErrorCode): <<conn, connErrorCode>>
      obs       |-> << >>,       \* where observed: <<transport error, HTTP status, uploadId
                                 \* buffer>> at the stream's completion
      fin       |-> 0,           \* invocations of the operation's finished callback
      res       |-> -1,          \* error code of the last such invocation
      resData   |-> << >> ]      \* what a successful invocation delivered (ETag pointer, upload id)

\* The n-th request of an operation on a part is filed under <<op, part, n>>.
RequestId(reqs, req) ==
    << req.op, req.part,
       1 + Cardinality({k \in DOMAIN reqs : k[1] = req.op /\ k[2] = req.part}) >>

MakeSignedRequest(s, req) ==
    [s EXCEPT !.reqs = @ @@ (RequestId(@, req) :> req)]

----------------------------------------------------------------------------
(* Object operations: request assembly *)

PutObject(s, owner, part, pathId, retrieve) ==
    MakeSignedRequest(s, NewRequest("put", owner, part, pathId, << >>, retrieve, 0))

GetObject(s, owner, partNumber) ==
    MakeSignedRequest(s, NewRequest("get", owner, partNumber, << >>, << >>, FALSE, 0))

CreateMultipartUpload(s, owner) ==
    MakeSignedRequest(s, NewRequest("create", owner, 0, << >>, << >>, FALSE, 0))

\* operator<< of a size_t: its decimal digits.
RECURSIVE Decimal(_)
Decimal(n) ==
    LET digit == << "0", "1", "2", "3", "4", "5", "6", "7", "8", "9" >>[(n % 10) + 1]
    IN  IF n < 10 THEN << digit >> ELSE Decimal(n \div 10) \o << digit >>

\* The <Part> elements for etags[from ..], one per loop iteration.  Markup
\* (a tag, a line break, an indentation) is one token each; the text of an
\* element is spliced in character by character.
RECURSIVE CompleteMultipartUpload_Parts(_, _)
CompleteMultipartUpload_Parts(etags, i) ==
    IF i >= Len(etags) THEN << >>
    ELSE LET etag       == etags[i + 1]
             partNumber == i + 1
         IN  << "   ", "<Part>", "\n" >>
             \o << "       ", "<ETag>" >> \o etag \o << "</ETag>", "\n" >>
             \o << "       ", "<PartNumber>" >> \o Decimal(partNumber)
             \o << "</PartNumber>", "\n" >>
             \o << "   ", "</Part>", "\n" >>
             \o CompleteMultipartUpload_Parts(etags, i + 1)

\* Mutant: the loop walks the ETag vector from its end.
CompleteMultipartUpload_Body_Reversed(etags) ==
    << "<?xml?>", "\n", "<CompleteMultipartUpload>", "\n" >>
    \o CompleteMultipartUpload_Parts([k \in 1 .. Len(etags) |-> etags[Len(etags) + 1 - k]], 0)
    \o << "</CompleteMultipartUpload>" >>

\* The XML written to xmlContents.
CompleteMultipartUpload_Body(etags) ==
    << "<?xml?>", "\n", "<CompleteMultipartUpload>", "\n" >>
    \o CompleteMultipartUpload_Parts(etags, 0)
    \o << "</CompleteMultipartUpload>" >>

CompleteMultipartUpload(s, owner, uploadId, etags) ==
    MakeSignedRequest(s,
        [NewRequest("complete", owner, 0, uploadId, etags, FALSE, 0)
            EXCEPT !.body = CompleteMultipartUpload_Body(etags)])

AbortMultipartUpload(s, owner, uploadId, capErr) ==
    MakeSignedRequest(s, NewRequest("abort", owner, 0, uploadId, << >>, FALSE, capErr))

----------------------------------------------------------------------------
(* MultipartUploadState and the part processor *)

NoUpload ==
    [ numParts          |-> 0,
      uploadId          |-> << >>,
      etags             |-> << >>,
      numPartsCompleted |-> 0,
      isFinished        |-> FALSE,
      errorCode         |-> AWS_ERROR_SUCCESS ]

IdleProcessor ==
    [ pushed |-> FALSE, part |-> << >>, retries |-> 0 ]

NoDownload ==
    [ numParts          |-> 0,
      numPartsCompleted |-> 0,
      isFinished        |-> FALSE,
      errorCode         |-> AWS_ERROR_SUCCESS ]

\* No thread is in WarmDNSCache.
IdleWarm ==
    [ pc           |-> "idle",
      desired      |-> 0,       \* desiredNumberOfAddresses
      numAddresses |-> 0,       \* the resolver's A-record count as last read
      finished     |-> FALSE,   \* resolveHostFinished of the current iteration
      cb           |-> << >>,   \* per resolve issued, how far its callback has run
      corrupted    |-> FALSE ]  \* a destroyed object was used and memory damaged

\* MakeShared<MultipartUploadState>(key, objectSize, numParts); the ETag table
\* is indexed by part index 0 .. numParts-1.
NewUploadState(numParts) ==
    [ NoUpload EXCEPT !.numParts = numParts,
                      !.etags = [i \in 0 .. numParts - 1 |-> << >>] ]

SetUploadId(s, uploadId) ==
    [s EXCEPT !.up.uploadId = uploadId]

SetETag(s, partIndex, etag) ==
    [s EXCEPT !.up.etags[partIndex] = etag]

\* The ETag table copied out as a Vector, entry k (1-based here) for part index k-1.
GetETags(s) ==
    [k \in 1 .. s.up.numParts |-> s.up.etags[k - 1]]

\* Atomic increment-and-test: <<snapshot after, whether this increment reached numParts>>.
IncNumPartsCompleted(s) ==
    << [s EXCEPT !.up.numPartsCompleted = @ + 1],
       s.up.numPartsCompleted + 1 = s.up.numParts >>

\* The processor takes the upload: every part is waiting to be processed.
PushQueue(s) ==
    [s EXCEPT !.proc = [ pushed  |-> TRUE,
                         part    |-> [i \in 0 .. s.up.numParts - 1 |-> "queued"],
                         retries |-> 0 ]]

\* PartFinishedCallback: Done retires the part, Retry re-enqueues it.
PartFinished(s, partIndex, response) ==
    IF response = "Retry"
    THEN [s EXCEPT !.proc.part[partIndex] = "queued", !.proc.retries = @ + 1]
    ELSE [s EXCEPT !.proc.part[partIndex] = "done"]

\* MetricsPublisher::AddTransferStatusDataPoint: one more transfer reported
\* as succeeded or as failed.
AddTransferStatusDataPoint(s, transferSuccess) ==
    IF transferSuccess
    THEN [s EXCEPT !.status.ok = @ + 1]
    ELSE [s EXCEPT !.status.failed = @ + 1]

\* Mutant: the finished callback aborts the upload whatever the error code.
PutObjectMultipart_FinishedCallback_AlwaysAborts(s, errorCode) ==
    AbortMultipartUpload(s, "upload", s.up.uploadId, errorCode)

\* The finished callback PutObjectMultipart installs on the upload state.
PutObjectMultipart_FinishedCallback(s, errorCode) ==
    IF errorCode # AWS_ERROR_SUCCESS
    THEN AbortMultipartUpload(s, "upload", s.up.uploadId, errorCode)
    ELSE [s EXCEPT !.fin = Append(@, [error |-> errorCode, numParts |-> s.up.numParts])]

\* MultipartTransferState::SetFinished: the first call latches the error and
\* runs the finished callback; later calls do nothing.
SetFinished(s, errorCode) ==
    IF s.up.isFinished
    THEN s
    ELSE PutObjectMultipart_FinishedCallback(
             [s EXCEPT !.up.isFinished = TRUE, !.up.errorCode = errorCode], errorCode)

\* Mutant: the failure branch lacks its return and falls through to the push.
PutObjectMultipart_CreateCallback_NoReturn(s, errorCode, uploadId) ==
    PushQueue(SetUploadId(
        IF errorCode # AWS_ERROR_SUCCESS THEN SetFinished(s, errorCode) ELSE s,
        uploadId))

\* The callback PutObjectMultipart hands to CreateMultipartUpload.
PutObjectMultipart_CreateCallback(s, errorCode, uploadId) ==
    IF errorCode # AWS_ERROR_SUCCESS
    THEN SetFinished(s, errorCode)
    ELSE PushQueue(SetUploadId(s, uploadId))

\* Mutant: the lambda reports its own parameter, the abort's result.
PutObjectMultipart_AbortCallback_OwnError(s, capErr, abortErrorCode) ==
    [s EXCEPT !.fin = Append(@, [error |-> abortErrorCode, numParts |-> s.up.numParts])]

\* The callback AbortMultipartUpload is given by the finished callback: it
\* ignores the abort's own result and reports the captured error.
PutObjectMultipart_AbortCallback(s, capErr, abortErrorCode) ==
    [s EXCEPT !.fin = Append(@, [error |-> capErr, numParts |-> s.up.numParts])]

\* Mutant: the ETag is stored at slot 0 whatever the part.
UploadPart_PutObjectFinished_Slot0(s, partIndex, errorCodeIn, etag) ==
    LET errorCode == IF etag = nullptr THEN AWS_ERROR_UNKNOWN ELSE errorCodeIn
    IN  IF errorCode = AWS_ERROR_SUCCESS
        THEN [SetETag(s, 0, etag[1]) EXCEPT !.proc.part[partIndex] = "stored"]
        ELSE PartFinished(AddTransferStatusDataPoint(s, FALSE), partIndex, "Retry")

\* Mutant: a failed part attempt finalizes the upload before asking for a retry.
UploadPart_PutObjectFinished_FailFinalizes(s, partIndex, errorCodeIn, etag) ==
    LET errorCode == IF etag = nullptr THEN AWS_ERROR_UNKNOWN ELSE errorCodeIn
    IN  IF errorCode = AWS_ERROR_SUCCESS
        THEN [SetETag(s, partIndex, etag[1]) EXCEPT !.proc.part[partIndex] = "stored"]
        ELSE PartFinished(AddTransferStatusDataPoint(SetFinished(s, errorCode), FALSE),
                          partIndex, "Retry")

\* Mutant: a failed attempt is counted as a completed part.
UploadPart_PutObjectFinished_FailCounts(s, partIndex, errorCodeIn, etag) ==
    LET errorCode == IF etag = nullptr THEN AWS_ERROR_UNKNOWN ELSE errorCodeIn
    IN  IF errorCode = AWS_ERROR_SUCCESS
        THEN [SetETag(s, partIndex, etag[1]) EXCEPT !.proc.part[partIndex] = "stored"]
        ELSE PartFinished(AddTransferStatusDataPoint(IncNumPartsCompleted(s)[1], FALSE),
                          partIndex, "Retry")

\* UploadPart's PutObject callback up to SetETag; the callback then goes on
\* to IncNumPartsCompleted (UploadPart_Completed), which other parts'
\* callbacks may overtake.
UploadPart_PutObjectFinished(s, partIndex, errorCodeIn, etag) ==
    LET errorCode == IF etag = nullptr THEN AWS_ERROR_UNKNOWN ELSE errorCodeIn
    IN  IF errorCode = AWS_ERROR_SUCCESS
        THEN [SetETag(s, partIndex, etag[1]) EXCEPT !.proc.part[partIndex] = "stored"]
        ELSE PartFinished(AddTransferStatusDataPoint(s, FALSE), partIndex, "Retry")

\* Mutant: the result of IncNumPartsCompleted is ignored.
UploadPart_Completed_AlwaysComplete(s, partIndex) ==
    LET s1 == IncNumPartsCompleted(s)[1]
    IN  AddTransferStatusDataPoint(
            PartFinished(CompleteMultipartUpload(s1, "upload", s1.up.uploadId, GetETags(s1)),
                         partIndex, "Done"),
            TRUE)

\* The rest of the success branch: increment, CompleteMultipartUpload when
\* this increment reached numParts, then partFinished(Done).
UploadPart_Completed(s, partIndex) ==
    LET inc == IncNumPartsCompleted(s)
        s1  == inc[1]
        s2  == IF inc[2]
               THEN CompleteMultipartUpload(s1, "upload", s1.up.uploadId, GetETags(s1))
               ELSE s1
    IN  AddTransferStatusDataPoint(PartFinished(s2, partIndex, "Done"), TRUE)

\* The process-part callback: sendPart, then UploadPart, which is a PutObject
\* with RetrieveETag on the path carrying part number and upload id.
UploadPart(s, partIndex) ==
    PutObject([s EXCEPT !.proc.part[partIndex] = "inflight"],
              "upload", partIndex, s.up.uploadId, TRUE)

----------------------------------------------------------------------------
(* MultipartDownloadState and the download processor *)

\* MakeShared<MultipartDownloadState>(key, 0L, numParts).
NewDownloadState(numParts) ==
    [ NoDownload EXCEPT !.numParts = numParts ]

\* Atomic increment-and-test: <<snapshot after, whether this increment reached numParts>>.
Download_IncNumPartsCompleted(s) ==
    << [s EXCEPT !.down.numPartsCompleted = @ + 1],
       s.down.numPartsCompleted + 1 = s.down.numParts >>

Download_PushQueue(s) ==
    [s EXCEPT !.dproc = [ pushed  |-> TRUE,
                          part    |-> [i \in 0 .. s.down.numParts - 1 |-> "queued"],
                          retries |-> 0 ]]

Download_PartFinished(s, partIndex, response) ==
    IF response = "Retry"
    THEN [s EXCEPT !.dproc.part[partIndex] = "queued", !.dproc.retries = @ + 1]
    ELSE [s EXCEPT !.dproc.part[partIndex] = "done"]

\* The finished callback GetObjectMultipart installs on the download state.
GetObjectMultipart_FinishedCallback(s, errorCode) ==
    [s EXCEPT !.dfin = Append(@, errorCode)]

\* MultipartTransferState::SetFinished on the download state.
Download_SetFinished(s, errorCode) ==
    IF s.down.isFinished
    THEN s
    ELSE GetObjectMultipart_FinishedCallback(
             [s EXCEPT !.down.isFinished = TRUE, !.down.errorCode = errorCode], errorCode)

\* GetObjectMultipart: build the download state and push it to the processor.
GetObjectMultipart(s, numParts) ==
    Download_PushQueue([s EXCEPT !.down = NewDownloadState(numParts)])

\* The process-part callback: GetPart, a GetObject of the part's number.
GetPart(s, partIndex) ==
    GetObject([s EXCEPT !.dproc.part[partIndex] = "inflight"], "download", partIndex + 1)

\* GetPart's GetObject callback up to IncNumPartsCompleted; what follows the
\* increment (GetPart_Completed) may be overtaken by other parts' callbacks.
GetPart_GetObjectFinished(s, partIndex, errorCode) ==
    IF errorCode # AWS_ERROR_SUCCESS
    THEN Download_PartFinished(s, partIndex, "Retry")
    ELSE LET inc == Download_IncNumPartsCompleted(s)
         IN  [inc[1] EXCEPT !.dproc.part[partIndex] =
                                IF inc[2] THEN "reached" ELSE "counted"]

\* Mutant: SetFinished is called whatever IncNumPartsCompleted returned.
GetPart_Completed_AlwaysFinishes(s, partIndex) ==
    Download_PartFinished(Download_SetFinished(s, AWS_ERROR_SUCCESS), partIndex, "Done")

\* The rest of the success branch: SetFinished() when the increment reached
\* numParts, then partFinished(Done).
GetPart_Completed(s, partIndex) ==
    LET s1 == IF s.dproc.part[partIndex] = "reached"
              THEN Download_SetFinished(s, AWS_ERROR_SUCCESS)
              ELSE s
    IN  Download_PartFinished(s1, partIndex, "Done")

----------------------------------------------------------------------------
(* Finished callbacks and stream callbacks of the operations *)

\* The operation's finishedCallback.  A user's callback only observes the
\* result; the orchestrator's own requests continue the upload.
FinishedCallback(s, id, errorCode, payload) ==
    LET r  == s.reqs[id]
        s1 == [s EXCEPT !.reqs[id].fin = @ + 1,
                        !.reqs[id].res = errorCode,
                        !.reqs[id].resData =
                            IF errorCode = AWS_ERROR_SUCCESS THEN payload ELSE << >>]
    IN  IF r.owner = "user" THEN s1
        ELSE IF r.owner = "download"
        THEN GetPart_GetObjectFinished(s1, r.part - 1, errorCode)
        ELSE CASE r.op = "create"   -> PutObjectMultipart_CreateCallback(s1, errorCode, payload)
               [] r.op = "put"      -> UploadPart_PutObjectFinished(s1, r.part, errorCode, payload)
               [] r.op = "complete" -> SetFinished(s1, errorCode)
               [] r.op = "abort"    -> PutObjectMultipart_AbortCallback(s1, r.capErr, errorCode)
               [] OTHER             -> s1

\* The SignedRequestCallback every operation passes to MakeSignedRequest:
\* a failed sign or acquisition is reported through finishedCallback.
OnAcquired(s, id, conn, errorCode) ==
    LET s1 == [s EXCEPT !.reqs[id].acquired =
                   Append(@, << IF s.trace THEN conn ELSE "-", errorCode, s.reqs[id].streams >>)]
    IN  IF errorCode # AWS_ERROR_SUCCESS
        THEN FinishedCallback(s1, id, errorCode,
                              IF s.reqs[id].op = "create" THEN << >> ELSE nullptr)
        ELSE s1

PutObject_StreamError(errorCode, status) ==
    IF errorCode = AWS_ERROR_SUCCESS /\ status # 200 THEN AWS_ERROR_UNKNOWN ELSE errorCode

\* Mutant: a ranged get expects 200 as well.
GetObject_StreamError_Always200(partNumber, error, status) ==
    IF error = AWS_ERROR_SUCCESS /\ status # 200 THEN AWS_ERROR_UNKNOWN ELSE error

GetObject_StreamError(partNumber, error, status) ==
    LET successStatus ==
            IF partNumber > 0 THEN S3GetObjectResponseStatus_PartialContent ELSE 200
    IN  IF error = AWS_ERROR_SUCCESS /\ status # successStatus
        THEN AWS_ERROR_UNKNOWN ELSE error

CreateMultipartUpload_StreamError(errorCode, uploadId, status) ==
    LET e1 == IF errorCode = AWS_ERROR_SUCCESS /\ uploadId = << >>
              THEN AWS_ERROR_UNKNOWN ELSE errorCode
    IN  IF e1 = AWS_ERROR_SUCCESS /\ status # 200 THEN AWS_ERROR_UNKNOWN ELSE e1

CompleteMultipartUpload_StreamError(errorCode, status) ==
    IF errorCode = AWS_ERROR_SUCCESS /\ status # 200 THEN AWS_ERROR_UNKNOWN ELSE errorCode

AbortMultipartUpload_StreamError(errorCode, status) ==
    IF errorCode = AWS_ERROR_SUCCESS /\ status # 204 THEN AWS_ERROR_UNKNOWN ELSE errorCode

\* PutObject's onIncomingHeaders for a block holding one header.
PutObject_OnIncomingHeaders(s, id, name, value) ==
    IF s.reqs[id].etag = nullptr THEN s
    ELSE IF name = "ETag" THEN [s EXCEPT !.reqs[id].etag = Ptr(value)]
    ELSE s

\* String::find(token, from) on a token sequence: the first position >= from
\* holding the token, 0 for npos.
Find(str, token, from) ==
    LET hits == {i \in from .. Len(str) : str[i] = token}
    IN  IF hits = {} THEN 0 ELSE CHOOSE i \in hits : \A j \in hits : i <= j

\* CreateMultipartUpload's onIncomingBody for one chunk.
CreateMultipartUpload_OnIncomingBody(s, id, data) ==
    LET uploadIdOpenIndex  == Find(data, OpenTag, 1)
        uploadIdCloseIndex == Find(data, CloseTag, uploadIdOpenIndex)
        uploadIdStart      == uploadIdOpenIndex + 1
    IN  IF uploadIdOpenIndex = 0 THEN s
        ELSE IF uploadIdCloseIndex = 0 THEN s
        ELSE [s EXCEPT !.reqs[id].uploadId =
                           SubSeq(data, uploadIdStart, uploadIdCloseIndex - 1)]

\* String dataString((const char *)data.ptr): the characters from data.ptr
\* up to the first NUL.  The cursor's length is not consulted and a body
\* chunk is not NUL-terminated, so the string is the chunk followed by
\* whatever the buffer holds beyond it.
CreateMultipartUpload_DataString(data, beyond) ==
    data \o beyond

----------------------------------------------------------------------------
(* Signed request pipeline: the callbacks *)

\* The pipeline of a request has ended: no callback of it will run again and
\* its closures, with the buffers they own, are destroyed.
Release(s, id) ==
    [s EXCEPT !.reqs[id].pc = "done",
              !.reqs[id].etag = nullptr,
              !.reqs[id].uploadId = << >>]

\* MakeSignedRequest_SendRequest; streamOpens tells whether NewClientStream
\* returned a stream (which is then activated) or nullptr.
MakeSignedRequest_SendRequest(s, id, streamOpens) ==
    [s EXCEPT !.active = @ + 1,
              !.reqs[id].streams = @ + 1,
              !.reqs[id].activated = streamOpens,
              !.reqs[id].pc = IF streamOpens THEN "streaming" ELSE "done"]

\* Mutant: the sign-error branch lacks its return and goes on to place the request.
SignRequestCallback_NoReturn(s, id, signingErrorCode) ==
    LET s1   == IF signingErrorCode # AWS_ERROR_SUCCESS
                THEN OnAcquired(s, id, "null", signingErrorCode) ELSE s
        next == GetNextConnManager(s1)
    IN  [next[1] EXCEPT !.reqs[id].mgr = next[2],
                        !.reqs[id].acquires = @ + 1,
                        !.reqs[id].pc = "acquiring"]

\* The lambda handed to SignRequest.
SignRequestCallback(s, id, signingErrorCode) ==
    IF signingErrorCode # AWS_ERROR_SUCCESS
    THEN OnAcquired(Release(s, id), id, "null", signingErrorCode)
    ELSE LET next == GetNextConnManager(s)
         IN  [next[1] EXCEPT !.reqs[id].mgr = next[2],
                             !.reqs[id].acquires = @ + 1,
                             !.reqs[id].pc = "acquiring"]

\* Mutant: a null or closed connection delivered with error 0 is not promoted.
AcquireConnectionCallback_NoPromote(s, id, conn, connErrorCodeIn, streamOpens) ==
    LET s1 == IF connErrorCodeIn = AWS_ERROR_SUCCESS
              THEN MakeSignedRequest_SendRequest(s, id, streamOpens /\ conn = "open")
              ELSE Release(s, id)
    IN  OnAcquired(s1, id, conn, connErrorCodeIn)

\* The lambda handed to AcquireConnection.
AcquireConnectionCallback(s, id, conn, connErrorCodeIn, streamOpens) ==
    LET connErrorCode ==
            IF conn # "open" /\ connErrorCodeIn = AWS_ERROR_SUCCESS
            THEN AWS_ERROR_UNKNOWN ELSE connErrorCodeIn
        s1 == IF connErrorCode = AWS_ERROR_SUCCESS
              THEN MakeSignedRequest_SendRequest(s, id, streamOpens)
              ELSE Release(s, id)
    IN  OnAcquired(s1, id, conn, connErrorCode)

\* Mutant: the lambda invokes the callback first and sends the request after.
AcquireConnectionCallback_SendRequest_CallbackFirst(s, id, conn, connErrorCodeIn, streamOpens) ==
    LET connErrorCode ==
            IF conn # "open" /\ connErrorCodeIn = AWS_ERROR_SUCCESS
            THEN AWS_ERROR_UNKNOWN ELSE connErrorCodeIn
        s1 == OnAcquired(s, id, conn, connErrorCode)
    IN  IF connErrorCode = AWS_ERROR_SUCCESS
        THEN MakeSignedRequest_SendRequest(s1, id, streamOpens)
        ELSE Release(s1, id)

\* The lambda handed to AcquireConnection up to the return of
\* MakeSignedRequest_SendRequest.  Activate() hands the stream to the
\* connection's event loop, whose callbacks may run from here on while the
\* lambda has still to invoke callback(conn, connErrorCode).
AcquireConnectionCallback_SendRequest(s, id, conn, connErrorCodeIn, streamOpens) ==
    LET connErrorCode ==
            IF conn # "open" /\ connErrorCodeIn = AWS_ERROR_SUCCESS
            THEN AWS_ERROR_UNKNOWN ELSE connErrorCodeIn
        s1 == IF connErrorCode = AWS_ERROR_SUCCESS
              THEN MakeSignedRequest_SendRequest(s, id, streamOpens)
              ELSE [s EXCEPT !.reqs[id].pc = "failed"]
    IN  [s1 EXCEPT !.reqs[id].pending = << conn, connErrorCode >>]

\* The rest of the lambda: callback(conn, connErrorCode).
AcquireConnectionCallback_Callback(s, id) ==
    LET r  == s.reqs[id]
        s1 == [s EXCEPT !.reqs[id].pending = << >>]
    IN  OnAcquired(IF r.pending[2] # AWS_ERROR_SUCCESS THEN Release(s1, id) ELSE s1,
                   id, r.pending[1], r.pending[2])

\* The onStreamComplete wrapper installed by MakeSignedRequest_SendRequest,
\* chaining to the operation's own onStreamComplete.
OnStreamComplete(s, id, errorCode, status) ==
    LET r  == s.reqs[id]
        s1 == [Release(s, id) EXCEPT !.active = @ - 1]
    IN  CASE r.op = "put" ->
               FinishedCallback(s1, id, PutObject_StreamError(errorCode, status), r.etag)
          [] r.op = "get" ->
               FinishedCallback(s1, id, GetObject_StreamError(r.part, errorCode, status), nullptr)
          [] r.op = "create" ->
               FinishedCallback(s1, id,
                   CreateMultipartUpload_StreamError(errorCode, r.uploadId, status), r.uploadId)
          [] r.op = "complete" ->
               FinishedCallback(s1, id, CompleteMultipartUpload_StreamError(errorCode, status), nullptr)
          [] r.op = "abort" ->
               FinishedCallback(s1, id, AbortMultipartUpload_StreamError(errorCode, status), nullptr)

----------------------------------------------------------------------------
(* Actions *)

\* Everything but the address book and the manager list, as the constructor
\* leaves it: counters at zero, nothing issued, no thread inside the fabric.
Quiet ==
    /\ m_connManagersUseCount = 0
    /\ m_activeRequestsCount = 0
    /\ requests = << >>
    /\ uploadState = NoUpload
    /\ uploadProcessor = IdleProcessor
    /\ finishedCalls = << >>
    /\ downloadState = NoDownload
    /\ downloadProcessor = IdleProcessor
    /\ downloadFinishedCalls = << >>
    /\ transferStatus = [ok |-> 0, failed |-> 0]
    /\ picked = << >>
    /\ warm = IdleWarm
    /\ resolver = 0
    /\ callers = << >>
    /\ called = [name |-> "S3ObjectTransport"]

\* The transport after the harness has warmed the DNS cache for two
\* addresses and spawned the connection managers.
Init ==
    /\ m_addressCache = << "a1", "a2" >>
    /\ m_connManagers = << "a1", "a2" >>
    /\ Quiet

\* The environment fails at most MaxRetries part attempts of an upload, so
\* that the unbounded retrying of the processor stays finite.
WithinRetries(s) == s.proc.retries <= MaxRetries /\ s.dproc.retries <= MaxRetries

\* The signer invokes the sign callback of a request.
SignDone ==
    \E id \in DOMAIN requests, signingErrorCode \in SigningErrorCodes :
        /\ requests[id].pc = "signing"
        /\ WithinRetries(SignRequestCallback(State, id, signingErrorCode))
        /\ Apply(SignRequestCallback(State, id, signingErrorCode))
        /\ UNCHANGED others

\* The connection manager invokes the acquisition callback of a request.
AcquireDone ==
    \E id \in DOMAIN requests, conn \in ConnStates,
       connErrorCode \in ConnErrorCodes, streamOpens \in BOOLEAN :
        /\ requests[id].pc = "acquiring"
        /\ WithinRetries(AcquireConnectionCallback(State, id, conn, connErrorCode, streamOpens))
        /\ Apply(AcquireConnectionCallback(State, id, conn, connErrorCode, streamOpens))
        /\ UNCHANGED others

\* A header block of a PutObject response arrives.
IncomingHeaders ==
    \E id \in DOMAIN requests, name \in HeaderNames :
        /\ requests[id].pc = "streaming"
        /\ requests[id].op = "put"
        /\ Apply(PutObject_OnIncomingHeaders(State, id, name, ETagOf(requests[id].part)))
        /\ UNCHANGED others

\* A body chunk of a CreateMultipartUpload response arrives.
IncomingBody ==
    \E id \in DOMAIN requests, data \in BodyChunks :
        /\ requests[id].pc = "streaming"
        /\ requests[id].op = "create"
        /\ Apply(CreateMultipartUpload_OnIncomingBody(State, id, data))
        /\ UNCHANGED others

\* The stream of a request completes.
StreamComplete ==
    \E id \in DOMAIN requests, errorCode \in StreamErrorCodes, status \in StatusCodes :
        /\ requests[id].pc = "streaming"
        /\ WithinRetries(OnStreamComplete(State, id, errorCode, status))
        /\ Apply(OnStreamComplete(State, id, errorCode, status))
        /\ UNCHANGED others

\* The same event in runs that also record what the stream completed with.
StreamCompleteObserved ==
    \E id \in DOMAIN requests, errorCode \in StreamErrorCodes, status \in StatusCodes :
        /\ requests[id].pc = "streaming"
        /\ Apply([OnStreamComplete(State, id, errorCode, status)
                     EXCEPT !.reqs[id].obs = << errorCode, status, requests[id].uploadId >>])
        /\ UNCHANGED others

(* Multipart upload *)

\* PutObjectMultipart: build the upload state and issue CreateMultipartUpload.
CallPutObjectMultipart ==
    \E numParts \in 1 .. MaxParts :
        /\ uploadState = NoUpload
        /\ Apply(CreateMultipartUpload([State EXCEPT !.up = NewUploadState(numParts)], "upload"))
        /\ UNCHANGED others

\* The processor hands a waiting part to the process-part callback, within
\* its stream budget.
ProcessPart ==
    \E partIndex \in DOMAIN uploadProcessor.part :
        /\ uploadProcessor.pushed
        /\ uploadProcessor.part[partIndex] = "queued"
        /\ Cardinality({i \in DOMAIN uploadProcessor.part :
                           uploadProcessor.part[i] \in {"inflight", "stored"}}) < MaxStreams
        /\ Apply(UploadPart(State, partIndex))
        /\ UNCHANGED others

\* A part's PutObject callback, having stored its ETag, runs to its end.
PartCompleted ==
    \E partIndex \in DOMAIN uploadProcessor.part :
        /\ uploadProcessor.part[partIndex] = "stored"
        /\ Apply(UploadPart_Completed(State, partIndex))
        /\ UNCHANGED others

Next ==
    \/ CallPutObjectMultipart
    \/ SignDone
    \/ AcquireDone
    \/ IncomingHeaders
    \/ IncomingBody
    \/ StreamComplete
    \/ ProcessPart
    \/ PartCompleted

Spec == Init /\ [][Next]_vars

(* Multipart download *)

CallGetObjectMultipart ==
    \E numParts \in 1 .. MaxParts :
        /\ downloadState = NoDownload
        /\ Apply(GetObjectMultipart(State, numParts))
        /\ UNCHANGED others

\* The download processor hands a waiting part to the process-part callback.
ProcessDownloadPart ==
    \E partIndex \in DOMAIN downloadProcessor.part :
        /\ downloadProcessor.pushed
        /\ downloadProcessor.part[partIndex] = "queued"
        /\ Cardinality({i \in DOMAIN downloadProcessor.part :
                           downloadProcessor.part[i] \in {"inflight", "counted", "reached"}})
               < MaxStreams
        /\ Apply(GetPart(State, partIndex))
        /\ UNCHANGED others

\* A part's GetObject callback, having counted its part, runs to its end.
DownloadPartCompleted ==
    \E partIndex \in DOMAIN downloadProcessor.part :
        /\ downloadProcessor.part[partIndex] \in {"counted", "reached"}
        /\ Apply(GetPart_Completed(State, partIndex))
        /\ UNCHANGED others

NextDownload ==
    \/ CallGetObjectMultipart
    \/ ProcessDownloadPart
    \/ SignDone
    \/ AcquireDone
    \/ StreamComplete
    \/ DownloadPartCompleted

SpecDownload == Init /\ [][NextDownload]_vars

(* CompleteMultipartUpload called with any ETag vector *)

\* ETag vectors of up to MaxETags entries: quoted, multipart-style with a
\* digit suffix, or empty.
ETagValues ==
    { << "\"", "a", "\"" >>, << "\"", "b", "-", "2", "\"" >>, << >> }

ETagVectors ==
    UNION { [1 .. n -> ETagValues] : n \in 0 .. MaxETags }

CallCompleteMultipartUploadWith ==
    \E etags \in ETagVectors :
        /\ DOMAIN requests = {}
        /\ Apply(CompleteMultipartUpload(State, "user", << "U1" >>, etags))
        /\ UNCHANGED others

NextBody ==
    \/ CallCompleteMultipartUploadWith
    \/ SignDone
    \/ AcquireDone
    \/ StreamComplete

SpecBody == Init /\ [][NextBody]_vars

(* Single-shot operations issued by the user *)

CallPutObject ==
    \E retrieve \in BOOLEAN :
        /\ Cardinality(DOMAIN requests) < MaxRequests
        /\ Apply(PutObject(State, "user", 0, << >>, retrieve))
        /\ UNCHANGED others

CallGetObject ==
    \E partNumber \in 0 .. 2 :
        /\ Cardinality(DOMAIN requests) < MaxRequests
        /\ Apply(GetObject(State, "user", partNumber))
        /\ UNCHANGED others

CallCreateMultipartUpload ==
    /\ Cardinality(DOMAIN requests) < MaxRequests
    /\ Apply(CreateMultipartUpload(State, "user"))
    /\ UNCHANGED others

CallCompleteMultipartUpload ==
    /\ Cardinality(DOMAIN requests) < MaxRequests
    /\ Apply(CompleteMultipartUpload(State, "user", << "U1" >>, << ETagOf(0) >>))
    /\ UNCHANGED others

CallAbortMultipartUpload ==
    /\ Cardinality(DOMAIN requests) < MaxRequests
    /\ Apply(AbortMultipartUpload(State, "user", << "U1" >>, 0))
    /\ UNCHANGED others

NextOps ==
    \/ CallPutObject
    \/ CallGetObject
    \/ CallCreateMultipartUpload
    \/ CallCompleteMultipartUpload
    \/ CallAbortMultipartUpload
    \/ SignDone
    \/ AcquireDone
    \/ IncomingHeaders
    \/ IncomingBody
    \/ StreamCompleteObserved

SpecOps == Init /\ [][NextOps]_vars

(* One signed request followed through the pipeline, every callback's
   arguments recorded *)

\* The user calls one of the five operations.
CallOperation ==
    \E op \in {"put", "get", "create", "complete", "abort"},
       partNumber \in 0 .. 1, retrieve \in BOOLEAN :
        /\ Cardinality(DOMAIN requests) < MaxObserved
        /\ op # "get" => partNumber = 0
        /\ op # "put" => ~retrieve
        /\ Apply(CASE op = "put"      -> PutObject(State, "user", 0, << >>, retrieve)
                  [] op = "get"      -> GetObject(State, "user", partNumber)
                  [] op = "create"   -> CreateMultipartUpload(State, "user")
                  [] op = "complete" -> CompleteMultipartUpload(State, "user", << "U1" >>, << ETagOf(0) >>)
                  [] op = "abort"    -> AbortMultipartUpload(State, "user", << "U1" >>, 0))
        /\ UNCHANGED others

SignDoneObserved ==
    \E id \in DOMAIN requests, signingErrorCode \in SigningErrorCodes :
        /\ requests[id].pc = "signing"
        /\ Apply([SignRequestCallback(StateObserved, id, signingErrorCode)
                     EXCEPT !.reqs[id].signObs = << signingErrorCode >>])
        /\ UNCHANGED others

AcquireDoneObserved ==
    \E id \in DOMAIN requests, conn \in ConnStates,
       connErrorCode \in ConnErrorCodes, streamOpens \in BOOLEAN :
        /\ requests[id].pc = "acquiring"
        /\ Apply([AcquireConnectionCallback(StateObserved, id, conn, connErrorCode, streamOpens)
                     EXCEPT !.reqs[id].acqObs = << conn, connErrorCode, streamOpens >>])
        /\ UNCHANGED others

NextPipe ==
    \/ CallOperation
    \/ SignDoneObserved
    \/ AcquireDoneObserved
    \/ IncomingHeaders
    \/ IncomingBody
    \/ StreamCompleteObserved

SpecPipe == Init /\ [][NextPipe]_vars

(* One CreateMultipartUpload and the chunks of its response body *)

\* Chunks with a complete pair, with an empty pair, with one tag only, with
\* no tag, and with a stray closing tag before the pair.
ParseChunks ==
    { << "<r>", OpenTag, "U1", CloseTag, "</r>" >>,
      << OpenTag, "U2", CloseTag >>,
      << OpenTag, CloseTag >>,
      << "<r>", OpenTag, "U1" >>,
      << CloseTag, "</r>" >>,
      << "<r>", "</r>" >>,
      << CloseTag, OpenTag, "U3", CloseTag, OpenTag, "U4", CloseTag >> }

\* What the receive buffer holds beyond a chunk, up to the first NUL:
\* nothing, or the bytes of an earlier message that end an UploadId element.
Overruns == { << >>, << "U0", CloseTag >> }

CallCreateMultipartUploadOnce ==
    /\ DOMAIN requests = {}
    /\ Apply(CreateMultipartUpload(State, "user"))
    /\ UNCHANGED others

\* A body chunk of the response arrives in a buffer.
IncomingBodyChunk ==
    \E id \in DOMAIN requests, data \in ParseChunks, beyond \in Overruns :
        /\ requests[id].pc = "streaming"
        /\ requests[id].op = "create"
        /\ Len(requests[id].bodyObs) < MaxChunks
        /\ Apply([CreateMultipartUpload_OnIncomingBody(
                      State, id, CreateMultipartUpload_DataString(data, beyond))
                     EXCEPT !.reqs[id].bodyObs = Append(@, data)])
        /\ UNCHANGED others

NextParse ==
    \/ CallCreateMultipartUploadOnce
    \/ SignDone
    \/ AcquireDone
    \/ IncomingBodyChunk
    \/ StreamCompleteObserved

SpecParse == Init /\ [][NextParse]_vars

(* The same request, the acquisition lambda and the connection's event loop
   running side by side *)

\* The connection manager invokes the acquisition lambda, which runs up to
\* the return of MakeSignedRequest_SendRequest.
AcquireDone_SendRequest ==
    \E id \in DOMAIN requests, conn \in ConnStates,
       connErrorCode \in ConnErrorCodes, streamOpens \in BOOLEAN :
        /\ requests[id].pc = "acquiring"
        /\ Apply([AcquireConnectionCallback_SendRequest(StateObserved, id, conn,
                                                        connErrorCode, streamOpens)
                     EXCEPT !.reqs[id].acqObs = << conn, connErrorCode, streamOpens >>])
        /\ UNCHANGED others

\* The acquisition lambda invokes callback(conn, connErrorCode) and returns.
AcquireDone_Callback ==
    \E id \in DOMAIN requests :
        /\ requests[id].pending # << >>
        /\ Apply(AcquireConnectionCallback_Callback(StateObserved, id))
        /\ UNCHANGED others

NextActivate ==
    \/ CallOperation
    \/ SignDoneObserved
    \/ AcquireDone_SendRequest
    \/ AcquireDone_Callback
    \/ IncomingHeaders
    \/ IncomingBody
    \/ StreamCompleteObserved

SpecActivate == Init /\ [][NextActivate]_vars

(* The fabric's methods called one after another by one thread *)

InitFabric ==
    /\ m_addressCache = << >>
    /\ m_connManagers = << >>
    /\ Quiet

\* The state a direct call finds.
Found(name) ==
    [ name |-> name, managers |-> Len(m_connManagers), useCount |-> m_connManagersUseCount ]

CallWarmDNSCache ==
    \E numTransfers \in TransferCounts,
       answers \in UNION { [1 .. n -> Batches] : n \in 1 .. MaxResolves } :
        /\ WarmDNSCache_Returns(numTransfers, answers)
        /\ Apply(WarmDNSCache(State, numTransfers, answers))
        /\ called' = Found("WarmDNSCache")
        /\ UNCHANGED << picked, warm, resolver, callers >>

CallSeedAddressCache ==
    \E address \in {"a1", "a2"} :
        /\ Apply(SeedAddressCache(State, address))
        /\ called' = Found("SeedAddressCache")
        /\ UNCHANGED << picked, warm, resolver, callers >>

CallPurgeConnectionManagers ==
    /\ Apply(PurgeConnectionManagers(State))
    /\ called' = Found("PurgeConnectionManagers")
    /\ UNCHANGED << picked, warm, resolver, callers >>

CallSpawnConnectionManagers ==
    /\ Apply(SpawnConnectionManagers(State))
    /\ called' = Found("SpawnConnectionManagers")
    /\ UNCHANGED << picked, warm, resolver, callers >>

\* GetNextConnManager, its lazy branch included.
CallGetNextConnManagerLazily ==
    \E answers \in UNION { [1 .. n -> Batches] : n \in 1 .. MaxResolves } :
        /\ m_connManagersUseCount < MaxUseCount
        /\ IF Len(m_connManagers) = 0
           THEN WarmDNSCache_Returns(1, answers)
           ELSE answers = << << >> >>
        /\ Apply(GetNextConnManager(GetNextConnManager_WarmAndSpawn(State, answers))[1])
        /\ called' = Found("GetNextConnManager")
        /\ UNCHANGED << picked, warm, resolver, callers >>

NextFabric ==
    \/ CallWarmDNSCache
    \/ CallSeedAddressCache
    \/ CallPurgeConnectionManagers
    \/ CallSpawnConnectionManagers
    \/ CallGetNextConnManagerLazily

SpecFabric == InitFabric /\ [][NextFabric]_vars

(* WarmDNSCache step by step, beside the resolver's threads *)

\* The iteration of the second loop that issued resolve j is over: its
\* mutex, condition variable and flag have been destroyed.
IterationOver(w, j) ==
    ~(j = Len(w.cb) /\ w.pc \in {"issued", "blocked"})

\* The resolver's cache gains an A record for the endpoint.
ResolverPopulates ==
    /\ resolver < MaxResolverAddresses
    /\ resolver' = resolver + 1
    /\ UNCHANGED << m_connManagers, m_connManagersUseCount, m_activeRequestsCount,
                    requests, uploadState, uploadProcessor, finishedCalls,
                    m_addressCache, downloadState, downloadProcessor,
                    downloadFinishedCalls, transferStatus, picked, warm, callers, called >>

\* WarmDNSCache up to its first loop: the target, the fire-and-forget
\* resolve, the first reading of the resolver's A-record count.
WarmDNSCache_Enter ==
    \E numTransfers \in TransferCounts :
        /\ warm.pc = "idle"
        /\ warm' = [IdleWarm EXCEPT !.pc = "polling",
                                    !.desired = DesiredNumberOfAddresses(numTransfers),
                                    !.numAddresses = resolver]
        /\ Apply(State)
        /\ UNCHANGED << picked, resolver, callers, called >>

\* One turn of the first loop: sleep, read the count again.
WarmDNSCache_Poll ==
    /\ warm.pc = "polling"
    /\ warm.numAddresses < warm.desired
    /\ warm' = [warm EXCEPT !.numAddresses = resolver]
    /\ Apply(State)
    /\ UNCHANGED << picked, resolver, callers, called >>

\* The first loop ends; the address cache is cleared.
WarmDNSCache_Clear ==
    /\ warm.pc = "polling"
    /\ warm.numAddresses >= warm.desired
    /\ warm' = [warm EXCEPT !.pc = "loop"]
    /\ Apply([State EXCEPT !.book = << >>])
    /\ UNCHANGED << picked, resolver, callers, called >>

\* The test of the second loop: with too few addresses an iteration starts
\* (its locals are constructed and its resolve is issued), else the call returns.
WarmDNSCache_Iterate ==
    /\ warm.pc = "loop"
    /\ Len(m_addressCache) < warm.desired => Len(warm.cb) < MaxResolves
    /\ warm' = IF Len(m_addressCache) < warm.desired
               THEN [warm EXCEPT !.pc = "issued", !.finished = FALSE,
                                 !.cb = Append(@, "pending")]
               ELSE [warm EXCEPT !.pc = "returned"]
    /\ Apply(State)
    /\ UNCHANGED << picked, resolver, callers, called >>

\* signal.wait(waitLock, pred): with the flag set the iteration ends, its
\* locals are destroyed; else the thread blocks on the condition variable.
WarmDNSCache_Wait ==
    /\ warm.pc = "issued"
    /\ warm' = [warm EXCEPT !.pc = IF warm.finished THEN "loop" ELSE "blocked"]
    /\ Apply(State)
    /\ UNCHANGED << picked, resolver, callers, called >>

\* The resolver runs the completion callback of resolve j up to the end of
\* its lock_guard block: the A records are appended, the flag is set.
WarmDNSCache_HostResolved ==
    \E j \in DOMAIN warm.cb, addresses \in Batches :
        /\ warm.cb[j] = "pending"
        /\ warm' = [warm EXCEPT !.cb[j] = "flagged", !.finished = TRUE]
        /\ Apply([State EXCEPT !.book = WarmDNSCache_OnHostResolved(@, addresses)])
        /\ UNCHANGED << picked, resolver, callers, called >>

\* The callback of resolve j goes on to signal.notify_one().  A thread
\* blocked on the condition variable is woken and tests the flag again.
\* When the iteration is over the condition variable the callback refers to
\* has been destroyed: the call is undefined, and either finds nothing to
\* wake or writes into whatever the stack holds there by now.
WarmDNSCache_NotifyOne ==
    \E j \in DOMAIN warm.cb, damage \in BOOLEAN :
        /\ warm.cb[j] = "flagged"
        /\ damage => IterationOver(warm, j)
        /\ warm' = [warm EXCEPT !.cb[j] = "done",
                                !.pc = IF ~IterationOver(warm, j) /\ @ = "blocked"
                                       THEN "issued" ELSE @,
                                !.corrupted = @ \/ damage]
        /\ Apply(State)
        /\ UNCHANGED << picked, resolver, callers, called >>

NextWarm ==
    \/ ResolverPopulates
    \/ WarmDNSCache_Enter
    \/ WarmDNSCache_Poll
    \/ WarmDNSCache_Clear
    \/ WarmDNSCache_Iterate
    \/ WarmDNSCache_Wait
    \/ WarmDNSCache_HostResolved
    \/ WarmDNSCache_NotifyOne

SpecWarm == InitFabric /\ [][NextWarm]_vars

(* GetNextConnManager statement by statement, called from several threads *)

\* A thread enters GetNextConnManager.
Caller_Enter ==
    /\ Len(callers) < MaxCallers
    /\ callers' = Append(callers, [ pc     |-> "check",
                                    old    |-> -1,       \* what fetch_add(1) returned
                                    index  |-> -1,
                                    result |-> "",       \* the manager returned
                                    ub     |-> FALSE ])  \* the call had undefined behaviour
    /\ Apply(State)
    /\ UNCHANGED << picked, warm, resolver, called >>

\* if (m_connManagers.size() == 0)
Caller_Check ==
    \E t \in DOMAIN callers :
        /\ callers[t].pc = "check"
        /\ callers' = [callers EXCEPT ![t].pc =
                           IF Len(m_connManagers) = 0 THEN "warm" ELSE "index"]
        /\ Apply(State)
        /\ UNCHANGED << picked, warm, resolver, called >>

\* WarmDNSCache(1), run to its end by the thread.
Caller_Warm ==
    \E t \in DOMAIN callers,
       answers \in UNION { [1 .. n -> Batches] : n \in 1 .. MaxResolves } :
        /\ callers[t].pc = "warm"
        /\ WarmDNSCache_Returns(1, answers)
        /\ callers' = [callers EXCEPT ![t].pc = "purge"]
        /\ Apply(WarmDNSCache(State, 1, answers))
        /\ UNCHANGED << picked, warm, resolver, called >>

\* SpawnConnectionManagers: its call of PurgeConnectionManagers.
Caller_Purge ==
    \E t \in DOMAIN callers :
        /\ callers[t].pc = "purge"
        /\ callers' = [callers EXCEPT ![t].pc = "spawn"]
        /\ Apply(PurgeConnectionManagers(State))
        /\ UNCHANGED << picked, warm, resolver, called >>

\* SpawnConnectionManagers: its loop, pushing onto the list as it is by now.
Caller_Spawn ==
    \E t \in DOMAIN callers :
        /\ callers[t].pc = "spawn"
        /\ callers' = [callers EXCEPT ![t].pc = "index"]
        /\ Apply([State EXCEPT !.mgrs =
                      SpawnConnectionManagers_Loop(@, m_addressCache, 1)])
        /\ UNCHANGED << picked, warm, resolver, called >>

\* The index computation.  With an empty list the modulo divides by zero,
\* which is undefined: the build traps, or yields some index (0 here).
Caller_Index ==
    \E t \in DOMAIN callers, trap \in BOOLEAN :
        /\ callers[t].pc = "index"
        /\ trap => Len(m_connManagers) = 0
        /\ callers' = [callers EXCEPT
               ![t].old   = m_connManagersUseCount,
               ![t].index = IF Len(m_connManagers) = 0 THEN 0
                            ELSE GetNextConnManager(State)[2],
               ![t].ub    = Len(m_connManagers) = 0,
               ![t].pc    = IF trap THEN "trapped" ELSE "fetch"]
        /\ Apply([State EXCEPT !.useCount = @ + 1])
        /\ UNCHANGED << picked, warm, resolver, called >>

\* return m_connManagers[index]: past the end of the list the read is
\* undefined and returns whatever lies there.
Caller_Return ==
    \E t \in DOMAIN callers :
        /\ callers[t].pc = "fetch"
        /\ callers' = [callers EXCEPT
               ![t].result = IF callers[t].index < Len(m_connManagers)
                             THEN m_connManagers[callers[t].index + 1] ELSE "garbage",
               ![t].ub     = @ \/ callers[t].index >= Len(m_connManagers),
               ![t].pc     = "returned"]
        /\ Apply(State)
        /\ UNCHANGED << picked, warm, resolver, called >>

NextCallers ==
    \/ Caller_Enter
    \/ Caller_Check
    \/ Caller_Warm
    \/ Caller_Purge
    \/ Caller_Spawn
    \/ Caller_Index
    \/ Caller_Return

SpecCallers == InitFabric /\ [][NextCallers]_vars

(* Request placement called directly *)

InitPlace ==
    /\ \E n \in 1 .. MaxManagers :
           /\ m_addressCache = [i \in 1 .. n |-> "a"]
           /\ m_connManagers = [i \in 1 .. n |-> "a"]
    /\ Quiet

CallGetNextConnManager ==
    /\ Len(picked) < MaxCalls
    /\ LET next == GetNextConnManager(State)
       IN  /\ Apply(next[1])
           /\ picked' = Append(picked, next[2])
           /\ UNCHANGED << warm, resolver, callers, called >>

NextPlace == CallGetNextConnManager

SpecPlace == InitPlace /\ [][NextPlace]_vars

----------------------------------------------------------------------------
(* Properties of the signed-request pipeline and the single-shot operations *)

RequestsOf(op) == {k \in DOMAIN requests : k[1] = op}

AllDone == \A k \in DOMAIN requests : requests[k].pc = "done"

\* C4: every operation invokes its finished callback exactly once, whatever
\* the outcome of signing, acquisition, stream creation and stream
\* completion: never twice, and once its pipeline has ended never zero times.
C4_FinishedExactlyOnce ==
    \A k \in DOMAIN requests :
        /\ requests[k].fin <= 1
        /\ requests[k].pc = "done" => requests[k].fin = 1

\* C5: the in-flight counter counts exactly the activated streams that have
\* not completed yet, so it is back at its initial value (0) once no request
\* is in flight.
C5_CounterReturns ==
    /\ m_activeRequestsCount =
           Cardinality({k \in DOMAIN requests : requests[k].pc = "streaming"})
    /\ AllDone => m_activeRequestsCount = 0

\* The status an operation's stream completion must carry to succeed.
ExpectedStatus(op, part) ==
    CASE op = "abort" -> 204
      [] op = "get"   -> IF part = 0 THEN 200 ELSE 206
      [] OTHER        -> 200

\* C10 as stated: a completion with transport error 0 is reported as success
\* iff the status is the operation's expected one, else as the unknown error;
\* a non-zero transport error is reported unchanged.
C10_StatusDecidesResult ==
    \A k \in DOMAIN requests :
        requests[k].obs # << >> =>
            requests[k].res =
                IF requests[k].obs[1] # 0 THEN requests[k].obs[1]
                ELSE IF requests[k].obs[2] = ExpectedStatus(k[1], k[2]) THEN 0
                ELSE AWS_ERROR_UNKNOWN

\* C10, amended: as above, except that create_multipart_upload succeeds only
\* if, besides status 200, a non-empty upload id was parsed from the body.
C10_StatusAndUploadIdDecideResult ==
    \A k \in DOMAIN requests :
        requests[k].obs # << >> =>
            /\ requests[k].fin = 1
            /\ requests[k].res =
                IF requests[k].obs[1] # 0 THEN requests[k].obs[1]
                ELSE IF /\ requests[k].obs[2] = ExpectedStatus(k[1], k[2])
                        /\ k[1] = "create" => requests[k].obs[3] # << >>
                     THEN 0
                ELSE AWS_ERROR_UNKNOWN

\* A create that completed with status 200 but no upload id and was reported
\* as the unknown error, beside a ranged get that succeeded with 206.
C10_Witness ==
    /\ \E k \in RequestsOf("create") :
           /\ requests[k].obs = << 0, 200, << >> >>
           /\ requests[k].res = AWS_ERROR_UNKNOWN
    /\ \E k \in RequestsOf("get") :
           /\ k[2] >= 1
           /\ requests[k].obs = << 0, 206, << >> >>
           /\ requests[k].res = 0

----------------------------------------------------------------------------
(* Properties of request placement *)

\* C6: the k-th request (counting from 0) goes to manager (k div 10) mod
\* |managers|: blocks of ten, starting at index 0, advancing by one.
C6_BlocksOfTen ==
    \A k \in 1 .. Len(picked) :
        picked[k] = ((k - 1) \div 10) % Len(m_connManagers)

----------------------------------------------------------------------------
(* Properties of the multipart upload *)

Parts == DOMAIN uploadProcessor.part

\* Parts one of whose PutObject attempts finished with success.
SucceededParts ==
    {i \in Parts : \E k \in RequestsOf("put") : k[2] = i /\ requests[k].res = 0}

\* Parts retired by the processor although no attempt of theirs succeeded.
TerminallyFailedParts ==
    {i \in Parts : uploadProcessor.part[i] = "done"} \ SucceededParts

Failed(op) ==
    \E k \in RequestsOf(op) : requests[k].fin >= 1 /\ requests[k].res # 0

UploadIdObtained == uploadState.uploadId # << >>

\* C1: CompleteMultipartUpload is issued exactly once when every part has
\* finished with success, at most once altogether, and never while some part
\* has not succeeded yet.
C1_CompleteExactlyOnce ==
    /\ Cardinality(RequestsOf("complete")) <= 1
    /\ RequestsOf("complete") # {} => SucceededParts = 0 .. uploadState.numParts - 1
    /\ (uploadProcessor.pushed /\ \A i \in Parts : uploadProcessor.part[i] = "done")
           => Cardinality(RequestsOf("complete")) = 1

\* A two-part upload one of whose attempts failed and was retried, and whose
\* CompleteMultipartUpload has been issued.
C1_Witness ==
    /\ uploadState.numParts = 2
    /\ uploadProcessor.retries >= 1
    /\ RequestsOf("complete") # {}

\* C2: AbortMultipartUpload is issued at most once, only on finalization with
\* an error, and only if CreateMultipartUpload delivered an upload id.
C2_AbortOnlyWithUploadId ==
    /\ Cardinality(RequestsOf("abort")) <= 1
    /\ RequestsOf("abort") # {} =>
           /\ uploadState.isFinished /\ uploadState.errorCode # 0
           /\ UploadIdObtained
           /\ ~Failed("create")

C7_CompleteCarriesStoredETags ==
    \A c \in RequestsOf("complete") :
        /\ Len(requests[c].etags) = uploadState.numParts
        /\ \A i \in 0 .. uploadState.numParts - 1 :
               \E k \in RequestsOf("put") :
                   /\ k[2] = i
                   /\ requests[k].res = 0
                   /\ requests[k].resData = Ptr(requests[c].etags[i + 1])

\* A completed two-part upload in which part 1 stored its ETag and a failed
\* attempt of part 0 had been retried, the parts delivering different ETags.
C7_Witness ==
    /\ uploadState.numParts = 2
    /\ uploadProcessor.retries >= 1
    /\ \E c \in RequestsOf("complete") :
           requests[c].etags[1] # requests[c].etags[2]

\* C8: the user's finished callback runs at most once; with an error E only
\* after the abort issued at finalization has resolved, carrying E and not
\* the abort's result; with success directly, no abort having been issued.
C8_AbortThenOriginalError ==
    /\ Len(finishedCalls) <= 1
    /\ (uploadState.isFinished /\ uploadState.errorCode # 0) =>
           RequestsOf("abort") # {}
    /\ (uploadState.isFinished /\ uploadState.errorCode = 0) =>
           /\ RequestsOf("abort") = {}
           /\ finishedCalls = << [error |-> 0, numParts |-> uploadState.numParts] >>
    /\ \A n \in DOMAIN finishedCalls :
           /\ uploadState.isFinished
           /\ finishedCalls[n] =
                  [error |-> uploadState.errorCode, numParts |-> uploadState.numParts]
           /\ finishedCalls[n].error # 0 =>
                  \E a \in RequestsOf("abort") :
                      requests[a].pc = "done" /\ requests[a].fin = 1
    /\ \A a \in RequestsOf("abort") :
           requests[a].fin = 0 => finishedCalls = << >>

\* The upload reported the error of a failed CompleteMultipartUpload after
\* its abort had itself failed with a different error.
C8_Witness ==
    /\ Failed("complete")
    /\ \E a \in RequestsOf("abort") :
           /\ requests[a].fin = 1
           /\ requests[a].res \notin {0, uploadState.errorCode}
           /\ finishedCalls =
                  << [error |-> uploadState.errorCode, numParts |-> uploadState.numParts] >>

\* C9: a request signs, acquires and opens a stream at most once each, and
\* takes one placement; Create, Complete and Abort are issued at most once;
\* after a failed Create no part upload and no Complete exists; after a
\* failed Complete no part is waiting or in flight.
C9_NoRetryBelowParts ==
    /\ \A k \in DOMAIN requests :
           /\ requests[k].signs <= 1
           /\ requests[k].acquires <= 1
           /\ requests[k].streams <= 1
    /\ m_connManagersUseCount =
           Cardinality({k \in DOMAIN requests : requests[k].acquires = 1})
    /\ \A op \in {"create", "complete", "abort"} : Cardinality(RequestsOf(op)) <= 1
    /\ Failed("create") =>
           /\ RequestsOf("put") = {} /\ RequestsOf("complete") = {}
           /\ ~uploadProcessor.pushed
    /\ Failed("complete") =>
           /\ \A k \in RequestsOf("put") : requests[k].pc = "done"
           /\ \A i \in Parts : uploadProcessor.part[i] \in {"stored", "done"}

\* A failed CompleteMultipartUpload after a retried part, with the abort
\* issued and nothing else in flight.
C9_Witness ==
    /\ Failed("complete")
    /\ uploadProcessor.retries >= 1
    /\ \A k \in DOMAIN requests : k[1] # "abort" => requests[k].pc = "done"


----------------------------------------------------------------------------
(* Properties of the start of a multipart upload *)

\* What CreateMultipartUpload's outcome decides: on success a non-empty
\* upload id is recorded in the upload state and the state is pushed; on
\* failure the state is never pushed, nothing of a part is issued, and the
\* Create error is latched.
CreateDecidesPush ==
    /\ \A k \in RequestsOf("create") :
           /\ requests[k].fin <= 1
           /\ (requests[k].fin = 1 /\ requests[k].res = 0) =>
                  /\ requests[k].resData # << >>
                  /\ uploadState.uploadId = requests[k].resData
           /\ uploadProcessor.pushed <=> (requests[k].fin = 1 /\ requests[k].res = 0)
           /\ (requests[k].fin = 1 /\ requests[k].res # 0) =>
                  /\ RequestsOf("put") = {}
                  /\ uploadState.isFinished
                  /\ uploadState.errorCode = requests[k].res
                  /\ \A n \in DOMAIN finishedCalls :
                         finishedCalls[n].error = requests[k].res
    /\ RequestsOf("create") = {} => ~uploadProcessor.pushed

\* C11: CreateMultipartUpload's outcome decides the push as above, and once a
\* failed Create's consequences have run their course (no request of the
\* upload is still in flight) on_finished has been invoked with the Create
\* error.
C11_CreateFailureReported ==
    /\ CreateDecidesPush
    /\ \A k \in RequestsOf("create") :
           (requests[k].fin = 1 /\ requests[k].res # 0 /\ AllDone) =>
               finishedCalls =
                   << [error |-> requests[k].res, numParts |-> uploadState.numParts] >>


----------------------------------------------------------------------------
(* Properties of the sign and acquisition callbacks *)

\* The error the acquisition callback goes on with.
Promoted(conn, connErrorCode) ==
    IF conn # "open" /\ connErrorCode = AWS_ERROR_SUCCESS
    THEN AWS_ERROR_UNKNOWN ELSE connErrorCode

\* Requests whose sign (acquisition) callback runs in the current step.
SignedNow(k) ==
    k \in DOMAIN requests /\ requests[k].signObs = << >> /\ requests'[k].signObs # << >>

AcquiredNow(k) ==
    k \in DOMAIN requests /\ requests[k].acqObs = << >> /\ requests'[k].acqObs # << >>

\* A request the signer failed: on_acquired ran once, with no connection and
\* the signer's error, before anything was placed, acquired or opened, and
\* the pipeline is over.
SignFailureStops ==
    \A k \in DOMAIN requests :
        (requests[k].signObs # << >> /\ requests[k].signObs[1] # AWS_ERROR_SUCCESS) =>
            /\ requests[k].acquired = << << "null", requests[k].signObs[1], 0 >> >>
            /\ requests[k].pc = "done"
            /\ requests[k].mgr = -1
            /\ requests[k].acquires = 0
            /\ requests[k].acqObs = << >>
            /\ requests[k].streams = 0
            /\ ~requests[k].activated

\* The step in which the signer fails a request moves neither counter.
SignFailureCountsNothing ==
    \A k \in DOMAIN requests :
        (SignedNow(k) /\ requests'[k].signObs[1] # AWS_ERROR_SUCCESS) =>
            /\ m_connManagersUseCount' = m_connManagersUseCount
            /\ m_activeRequestsCount' = m_activeRequestsCount

\* C17: a signer error is passed to on_acquired(nil, sign_err) exactly once
\* and stops the pipeline: no manager is selected, no connection acquired, no
\* stream opened, and use_count and the in-flight counter stay as they were.
C17_SignErrorStopsPipeline ==
    [] SignFailureStops /\ [][SignFailureCountsNothing]_vars

\* A put whose signing failed with the signer's error 21.
C17_Witness ==
    \E k \in RequestsOf("put") :
        /\ requests[k].signObs = << 21 >>
        /\ requests[k].acquired = << << "null", 21, 0 >> >>
        /\ requests[k].res = 21

\* An acquisition result the callback has handled: on_acquired ran once, with
\* the connection as delivered and the promoted error, after the stream was
\* opened when that error is 0 and with no stream opened otherwise.
AcquisitionHandled ==
    \A k \in DOMAIN requests :
        requests[k].acqObs # << >> =>
            LET conn == requests[k].acqObs[1]
                err  == Promoted(requests[k].acqObs[1], requests[k].acqObs[2])
            IN  /\ requests[k].acquired =
                       << << conn, err, IF err = AWS_ERROR_SUCCESS THEN 1 ELSE 0 >> >>
                /\ requests[k].streams = IF err = AWS_ERROR_SUCCESS THEN 1 ELSE 0
                /\ requests[k].activated => err = AWS_ERROR_SUCCESS
                /\ err # AWS_ERROR_SUCCESS =>
                       requests[k].pc = "done" /\ requests[k].res = err

\* The step handling an acquisition result increments the in-flight counter
\* exactly when the promoted error is 0.
AcquisitionCounts ==
    \A k \in DOMAIN requests :
        AcquiredNow(k) =>
            m_activeRequestsCount' = m_activeRequestsCount +
                (IF Promoted(requests'[k].acqObs[1], requests'[k].acqObs[2]) = AWS_ERROR_SUCCESS
                 THEN 1 ELSE 0)

\* C18: a null or closed connection delivered with error 0 is promoted to the
\* unknown error; a stream is opened and the in-flight counter incremented
\* only if the error is still 0; on_acquired(conn, conn_err) is invoked
\* exactly once, after that step, on success and on error.
C18_AcquisitionResultHandled ==
    [] AcquisitionHandled /\ [][AcquisitionCounts]_vars

\* A closed connection delivered with error 0 was reported as the unknown
\* error, no stream having been opened.
C18_Witness ==
    \E k \in DOMAIN requests :
        /\ requests[k].acqObs \in {<< "closed", AWS_ERROR_SUCCESS, opens >> : opens \in BOOLEAN}
        /\ requests[k].acquired = << << "closed", AWS_ERROR_UNKNOWN, 0 >> >>
        /\ requests[k].streams = 0


----------------------------------------------------------------------------
(* Properties of part retries *)

\* Put requests of the upload whose finished callback runs in the current
\* step with a failure.
AttemptFailsNow(k) ==
    /\ k \in RequestsOf("put")
    /\ requests[k].fin = 0
    /\ requests'[k].fin = 1
    /\ requests'[k].res # AWS_ERROR_SUCCESS

\* A failing attempt records one failure metric, asks for a retry of its
\* part, and leaves the ETag table and num_parts_completed alone.
FailedAttemptOnlyRetries ==
    \A k \in DOMAIN requests :
        AttemptFailsNow(k) =>
            /\ transferStatus' = [transferStatus EXCEPT !.failed = @ + 1]
            /\ uploadProcessor' = [uploadProcessor EXCEPT !.part[k[2]] = "queued",
                                                          !.retries = @ + 1]
            /\ uploadState' = uploadState
            /\ finishedCalls' = finishedCalls
            /\ RequestsOf("complete") = {} /\ DOMAIN requests' = DOMAIN requests

\* Whatever failed before: once every part has been retired there is exactly
\* one CompleteMultipartUpload, carrying for each part the ETag its
\* successful attempt delivered, and when that request succeeds the upload
\* has finished with on_finished(0, num_parts).
RetriedUploadCompletes ==
    /\ transferStatus.failed = uploadProcessor.retries
    /\ uploadState.numPartsCompleted + Cardinality({i \in Parts : uploadProcessor.part[i] = "stored"})
           = Cardinality(SucceededParts)
    /\ (uploadProcessor.pushed /\ \A i \in Parts : uploadProcessor.part[i] = "done") =>
           /\ Cardinality(RequestsOf("complete")) = 1
           /\ \A c \in RequestsOf("complete"), i \in Parts :
                  \E k \in RequestsOf("put") :
                      /\ k[2] = i
                      /\ requests[k].res = AWS_ERROR_SUCCESS
                      /\ requests[k].resData = Ptr(requests[c].etags[i + 1])
                      /\ \A j \in RequestsOf("put") :
                             (j[2] = i /\ j # k) => requests[j].res # AWS_ERROR_SUCCESS
    /\ \A c \in RequestsOf("complete") :
           (requests[c].fin = 1 /\ requests[c].res = AWS_ERROR_SUCCESS) =>
               finishedCalls = << [error |-> 0, numParts |-> uploadState.numParts] >>

----------------------------------------------------------------------------
(* Properties of the multipart download *)

DownloadParts == DOMAIN downloadProcessor.part

\* Parts one of whose GetObject attempts finished with success.
SucceededDownloadParts ==
    {i \in DownloadParts :
        \E k \in RequestsOf("get") : k[2] = i + 1 /\ requests[k].res = AWS_ERROR_SUCCESS}

\* Get requests of the download whose finished callback runs in the current step.
PartAttemptEndsNow(k) ==
    k \in RequestsOf("get") /\ requests[k].fin = 0 /\ requests'[k].fin = 1

\* A failed attempt signals Retry and leaves the download state alone; a
\* successful one increments num_parts_completed; the finished callback is
\* invoked only by the part whose increment reached num_parts.
DownloadStep ==
    /\ \A k \in DOMAIN requests :
           PartAttemptEndsNow(k) =>
               IF requests'[k].res # AWS_ERROR_SUCCESS
               THEN /\ downloadState' = downloadState
                    /\ downloadFinishedCalls' = downloadFinishedCalls
                    /\ downloadProcessor' =
                           [downloadProcessor EXCEPT !.part[k[2] - 1] = "queued",
                                                     !.retries = @ + 1]
               ELSE /\ downloadState' =
                           [downloadState EXCEPT !.numPartsCompleted = @ + 1]
                    /\ downloadFinishedCalls' = downloadFinishedCalls
    /\ downloadFinishedCalls' # downloadFinishedCalls =>
           \E i \in DownloadParts :
               /\ downloadProcessor.part[i] = "reached"
               /\ downloadProcessor'.part[i] = "done"

\* The finished callback has run at most once, with success, and only after
\* all parts succeeded; it has run once the part that reached num_parts has
\* finished its callback.
DownloadFinishesOnce ==
    /\ Len(downloadFinishedCalls) <= 1
    /\ \A n \in DOMAIN downloadFinishedCalls : downloadFinishedCalls[n] = AWS_ERROR_SUCCESS
    /\ downloadState.numPartsCompleted =
           Cardinality({i \in DownloadParts :
                           downloadProcessor.part[i] \in {"counted", "reached", "done"}})
    /\ {i \in DownloadParts : downloadProcessor.part[i] \in {"counted", "reached", "done"}}
           = SucceededDownloadParts
    /\ Cardinality({i \in DownloadParts : downloadProcessor.part[i] = "reached"}) <= 1
    /\ downloadFinishedCalls # << >> =>
           SucceededDownloadParts = 0 .. downloadState.numParts - 1
    /\ (downloadProcessor.pushed /\ \A i \in DownloadParts : downloadProcessor.part[i] = "done")
           => downloadFinishedCalls = << AWS_ERROR_SUCCESS >>

\* C14: in a multipart download a failed part attempt signals Retry and
\* leaves num_parts_completed unchanged, a successful part increments it, and
\* the finished callback is invoked exactly once, with success, at the first
\* increment that reaches num_parts and never before all parts succeeded.
C14_DownloadFinishesOnce ==
    [] DownloadFinishesOnce /\ [][DownloadStep]_vars

\* A finished two-part download one of whose attempts had failed and was retried.
C14_Witness ==
    /\ downloadState.numParts = 2
    /\ downloadProcessor.retries >= 1
    /\ downloadFinishedCalls = << AWS_ERROR_SUCCESS >>


----------------------------------------------------------------------------
(* Properties of the CompleteMultipartUpload body *)

\* The number a sequence of decimal digits denotes.
RECURSIVE FromDecimal(_)
FromDecimal(digits) ==
    IF digits = << >> THEN 0
    ELSE LET last == digits[Len(digits)]
             d    == CHOOSE v \in 0 .. 9 :
                         << "0", "1", "2", "3", "4", "5", "6", "7", "8", "9" >>[v + 1] = last
         IN  10 * FromDecimal(SubSeq(digits, 1, Len(digits) - 1)) + d

\* A reader of the body: the <<part number, ETag>> pairs of its <Part>
\* elements in document order.  elem is the element whose text is being
\* read, cur the part being collected, out the pairs read so far.
RECURSIVE ReadParts(_, _, _, _, _)
ReadParts(body, i, elem, cur, out) ==
    IF i > Len(body) THEN out
    ELSE LET tok == body[i]
         IN  CASE tok = "<Part>" ->
                    ReadParts(body, i + 1, "", [etag |-> << >>, number |-> << >>], out)
               [] tok = "</Part>" ->
                    ReadParts(body, i + 1, "", cur,
                              Append(out, << FromDecimal(cur.number), cur.etag >>))
               [] tok \in {"<ETag>", "<PartNumber>"} ->
                    ReadParts(body, i + 1, tok, cur, out)
               [] tok \in {"</ETag>", "</PartNumber>"} ->
                    ReadParts(body, i + 1, "", cur, out)
               [] OTHER ->
                    ReadParts(body, i + 1, elem,
                              CASE elem = "<ETag>"       -> [cur EXCEPT !.etag = Append(@, tok)]
                                [] elem = "<PartNumber>" -> [cur EXCEPT !.number = Append(@, tok)]
                                [] OTHER                 -> cur,
                              out)

----------------------------------------------------------------------------
(* Properties of the connection fabric *)

\* One manager per address of the book, in the book's order, counter at zero.
Spawned(s) ==
    /\ Len(s.mgrs) = Len(s.book)
    /\ \A i \in 1 .. Len(s.book) : s.mgrs[i] = s.book[i]
    /\ s.useCount = 0

\* C13: from any state, SpawnConnectionManagers alone and
\* PurgeConnectionManagers followed by SpawnConnectionManagers both leave one
\* manager per address, manager i pinned to address i, and use_count = 0;
\* running either again changes nothing.
C13_SpawnIdempotent ==
    /\ called.name = "SpawnConnectionManagers" => Spawned(State)
    /\ LET once == SpawnConnectionManagers(State)
       IN  /\ Spawned(once)
           /\ SpawnConnectionManagers(PurgeConnectionManagers(State)) = once
           /\ SpawnConnectionManagers(once) = once
           /\ SpawnConnectionManagers(PurgeConnectionManagers(once)) = once

\* SpawnConnectionManagers has run on a two-address book in a state that
\* held a single manager already used for a placement.
C13_Witness ==
    /\ called.name = "SpawnConnectionManagers"
    /\ called.managers = 1
    /\ called.useCount >= 1
    /\ Len(m_addressCache) = 2
    /\ m_connManagers = m_addressCache


----------------------------------------------------------------------------
(* Properties of the DNS warm-up *)

\* C12: when WarmDNSCache returns, the address book holds at least
\* ceil(num_transfers / 10) distinct A-record addresses and no AAAA record,
\* whatever batches the resolver answered with.
C12_DistinctARecords ==
    warm.pc = "returned" =>
        /\ Cardinality({m_addressCache[i] : i \in DOMAIN m_addressCache}) >= warm.desired
        /\ \A i \in DOMAIN m_addressCache : m_addressCache[i] \in {"a1", "a2"}

\* What does hold on return: enough entries, none of them an AAAA record.
WarmedBookSize ==
    warm.pc = "returned" =>
        /\ Len(m_addressCache) >= warm.desired
        /\ \A i \in DOMAIN m_addressCache : m_addressCache[i] \in {"a1", "a2"}

\* No wake-up is lost: a thread blocked in an iteration still has the
\* notify_one of that iteration's callback ahead of it.
NoLostWakeUp ==
    warm.pc = "blocked" => warm.cb[Len(warm.cb)] # "done"

\* C20: each iteration of the second loop blocks until the completion
\* callback of the resolve it issued has run, so that the warm-up proceeds
\* and returns once the resolver has delivered enough A records: no wake-up
\* is lost, and no callback is still running when its iteration is over.
C20_IterationAwaitsItsCallback ==
    /\ warm.pc # "idle" =>
           /\ NoLostWakeUp
           /\ \A j \in DOMAIN warm.cb : IterationOver(warm, j) => warm.cb[j] = "done"
           /\ ~warm.corrupted


----------------------------------------------------------------------------
(* Properties of concurrent placement *)

\* C16: under every interleaving of concurrent GetNextConnManager calls,
\* calls taking the lazy warm-and-spawn path included, every call returns a
\* manager of the manager list (no undefined index, no read past the list's
\* end) and no two calls consume the same use_count value.
C16_ConcurrentCallersSafe ==
    /\ \A t \in DOMAIN callers :
           /\ ~callers[t].ub
           /\ callers[t].pc # "trapped"
           /\ callers[t].pc = "returned" => callers[t].result # "garbage"
    /\ \A t, u \in DOMAIN callers :
           (t # u /\ callers[t].old >= 0 /\ callers[u].old >= 0) =>
               callers[t].old # callers[u].old


----------------------------------------------------------------------------
(* Properties of the order of on_acquired and the stream's callbacks *)

\* The step invokes on_acquired(conn, 0) of request k.
AcquiredOkNow(k) ==
    /\ k \in DOMAIN requests
    /\ requests[k].acquired = << >>
    /\ requests'[k].acquired # << >>
    /\ requests'[k].acquired[1][2] = AWS_ERROR_SUCCESS

\* on_acquired(conn, 0) is invoked with the request already sent: the
\* in-flight increment of the request has happened, NewClientStream has been
\* called, and the stream it returned has been activated; the step itself
\* sends nothing and leaves the in-flight counter alone.
AcquiredAfterSend ==
    \A k \in DOMAIN requests :
        AcquiredOkNow(k) =>
            /\ requests[k].streams = 1
            /\ requests[k].acqObs[3] => requests[k].activated
            /\ requests'[k].streams = 1
            /\ m_activeRequestsCount' = m_activeRequestsCount

\* A successful on_acquired has been recorded only for a request that was
\* sent before, and every sent request is counted in flight until its
\* stream completes.
AcquiredImpliesSent ==
    \A k \in DOMAIN requests :
        /\ \A n \in DOMAIN requests[k].acquired :
               requests[k].acquired[n][2] = AWS_ERROR_SUCCESS =>
                   requests[k].acquired[n][3] = 1 /\ requests[k].streams = 1
        /\ Len(requests[k].acquired) <= 1
        /\ requests[k].obs # << >> => requests[k].streams = 1

\* C21: on a successful acquisition the request is sent (in-flight counter
\* incremented, stream opened and activated) before on_acquired(conn, 0) is
\* invoked, so on_acquired never precedes the in-flight increment of its own
\* request, and stream callbacks of the request may be observed before its
\* on_acquired.
C21_AcquiredAfterActivate ==
    [] AcquiredImpliesSent /\ [][AcquiredAfterSend]_vars

\* A put whose stream delivered the ETag header and completed, its finished
\* callback having run, while on_acquired(conn, 0) has not been invoked yet.
C21_Witness ==
    \E k \in RequestsOf("put") :
        /\ requests[k].pending = << "open", AWS_ERROR_SUCCESS >>
        /\ requests[k].acquired = << >>
        /\ requests[k].obs = << 0, 200, << >> >>
        /\ requests[k].fin = 1
        /\ requests[k].resData = Ptr(ETagOf(0))


----------------------------------------------------------------------------
(* Properties of the upload id parse *)

\* The chunks of a body one after another.
RECURSIVE Concatenated(_)
Concatenated(chunks) ==
    IF chunks = << >> THEN << >> ELSE Head(chunks) \o Concatenated(Tail(chunks))

\* A chunk holds a complete pair: an opening tag and a closing tag after it.
HoldsPair(chunk) ==
    \E i, j \in DOMAIN chunk : i < j /\ chunk[i] = OpenTag /\ chunk[j] = CloseTag

\* The text strictly between the first opening tag of a body and the first
\* closing tag that follows it.
FirstPairText(body) ==
    LET open  == CHOOSE i \in DOMAIN body :
                     body[i] = OpenTag /\ \A j \in 1 .. i - 1 : body[j] # OpenTag
        close == CHOOSE i \in open + 1 .. Len(body) :
                     body[i] = CloseTag /\ \A j \in open + 1 .. i - 1 : body[j] # CloseTag
    IN  SubSeq(body, open + 1, close - 1)

\* C22: for every sequence of body chunks, an upload id reported with
\* success is the text between the first <UploadId> of the body and the first
\* </UploadId> after it, later chunks not changing it; and when no chunk
\* holds a complete pair the operation reports a non-zero error.
C22_FirstPairParsed ==
    \A k \in RequestsOf("create") :
        (requests[k].fin = 1 /\ requests[k].obs # << >>) =>
            /\ (\A n \in DOMAIN requests[k].bodyObs : ~HoldsPair(requests[k].bodyObs[n]))
                   => requests[k].res # AWS_ERROR_SUCCESS
            /\ requests[k].res = AWS_ERROR_SUCCESS =>
                   /\ \E n \in DOMAIN requests[k].bodyObs : HoldsPair(requests[k].bodyObs[n])
                   /\ requests[k].resData = FirstPairText(Concatenated(requests[k].bodyObs))


----------------------------------------------------------------------------
(* Properties of the part_finished signal *)

\* Part attempts (PutObject requests of the upload) whose pipeline has
\* ended: no callback of theirs will run again.
EndedAttempts ==
    {k \in RequestsOf("put") : requests[k].owner = "upload" /\ requests[k].pc = "done"}

\* C23: every process_part invocation signals part_finished exactly once,
\* whatever the outcome of signing, acquisition, stream creation and stream
\* completion: an attempt whose pipeline has ended has run its callback once,
\* a failed one has signalled Retry, a retired part had a successful attempt,
\* and a part still holding a slot has an attempt whose pipeline is alive.
C23_PartFinishedExactlyOnce ==
    /\ \A k \in RequestsOf("put") : requests[k].fin <= 1
    /\ \A k \in EndedAttempts : requests[k].fin = 1
    /\ Cardinality({k \in RequestsOf("put") :
                       requests[k].fin = 1 /\ requests[k].res # AWS_ERROR_SUCCESS})
           = uploadProcessor.retries
    /\ \A i \in Parts :
           /\ uploadProcessor.part[i] = "done" => i \in SucceededParts
           /\ uploadProcessor.part[i] = "inflight" =>
                  \E k \in RequestsOf("put") : k[2] = i /\ requests[k].pc # "done"


----------------------------------------------------------------------------
(* Properties of the lifetime of the warm-up's per-iteration objects *)

\* C24: under every interleaving of the thread in WarmDNSCache and the
\* resolver's callback, a callback that has still to call notify_one belongs
\* to an iteration the caller has not left, so that the mutex, the condition
\* variable and the flag it refers to are alive whenever it touches them.
C24_NotifyWhileAlive ==
    /\ \A j \in DOMAIN warm.cb :
           warm.cb[j] \in {"pending", "flagged"} => ~IterationOver(warm, j)
    /\ ~warm.corrupted


----------------------------------------------------------------------------
(* Properties of the ETags an upload stores *)

\* Parts whose PutObject callback has stored an ETag.
StoredParts ==
    {i \in Parts : uploadProcessor.part[i] \in {"stored", "done"}}

\* C25: every ETag stored in the ETag table, and so every ETag of the
\* CompleteMultipartUpload body, is the non-empty value of the ETag header
\* received by the part's successful attempt; an attempt whose response
\* carried no header named exactly ETag does not count as a success.
C25_StoredETagsCameFromHeaders ==
    /\ \A i \in StoredParts :
           /\ uploadState.etags[i] # << >>
           /\ uploadState.etags[i] = ETagOf(i)
    /\ \A k \in RequestsOf("put") :
           (requests[k].fin = 1 /\ requests[k].res = AWS_ERROR_SUCCESS) =>
               requests[k].resData = Ptr(ETagOf(k[2]))
    /\ \A c \in RequestsOf("complete") :
           \A n \in DOMAIN requests[c].etags : requests[c].etags[n] # << >>


----------------------------------------------------------------------------
(* Properties of the upload id of an upload *)

\* Requests of the upload whose path carries the upload id.
UploadIdCarriers ==
    RequestsOf("put") \cup RequestsOf("complete") \cup RequestsOf("abort")

\* C26: no part upload is issued before CreateMultipartUpload has succeeded
\* and its upload id is recorded; the id, once written, stays; so every
\* UploadPart request, the CompleteMultipartUpload request and any
\* AbortMultipartUpload request carry the same non-empty upload id, the one
\* the state holds.
C26_OneUploadIdThroughout ==
    /\ (uploadProcessor.pushed \/ RequestsOf("put") # {}) =>
           /\ UploadIdObtained
           /\ \E k \in RequestsOf("create") :
                  /\ requests[k].fin = 1
                  /\ requests[k].res = AWS_ERROR_SUCCESS
                  /\ requests[k].resData = uploadState.uploadId
    /\ \A k \in UploadIdCarriers :
           /\ requests[k].pathId # << >>
           /\ requests[k].pathId = uploadState.uploadId


----------------------------------------------------------------------------
(* Properties of the end of a multipart upload *)

\* CompleteMultipartUpload requests that finished with success.
SucceededCompletes ==
    {c \in RequestsOf("complete") : requests[c].fin = 1 /\ requests[c].res = AWS_ERROR_SUCCESS}

\* CompleteMultipartUpload reports success exactly for a stream that
\* completed without transport error and with HTTP 200.
CompleteSucceedsOn200 ==
    \A errorCode \in StreamErrorCodes, status \in StatusCodes :
        CompleteMultipartUpload_StreamError(errorCode, status) = AWS_ERROR_SUCCESS
            <=> (errorCode = AWS_ERROR_SUCCESS /\ status = 200)

\* No abort exists beside a succeeded Complete; a reported success rests on
\* a succeeded Complete; and once on_finished has run neither the Complete
\* nor the Abort of the upload is outstanding.
UploadEndsInOrder ==
    /\ CompleteSucceedsOn200
    /\ SucceededCompletes # {} => RequestsOf("abort") = {}
    /\ \A n \in DOMAIN finishedCalls :
           /\ finishedCalls[n].error = AWS_ERROR_SUCCESS =>
                  /\ SucceededCompletes # {}
                  /\ \A c \in SucceededCompletes : requests[c].activated
           /\ \A k \in RequestsOf("complete") \cup RequestsOf("abort") :
                  requests[k].pc = "done" /\ requests[k].fin = 1

\* The step that reports success is the completion of the Complete request's
\* stream; no step issues an abort once a Complete has succeeded or
\* on_finished has run.
UploadEndStep ==
    /\ (finishedCalls = << >> /\ finishedCalls' # << >>
            /\ finishedCalls'[1].error = AWS_ERROR_SUCCESS) =>
           \E c \in RequestsOf("complete") :
               /\ requests[c].pc = "streaming"
               /\ requests'[c].pc = "done"
               /\ requests'[c].res = AWS_ERROR_SUCCESS
    /\ (SucceededCompletes # {} \/ finishedCalls # << >>) =>
           DOMAIN requests' = DOMAIN requests

\* C27: AbortMultipartUpload is never issued after CompleteMultipartUpload
\* has succeeded; on_finished reports success only if CompleteMultipartUpload
\* was issued and completed with HTTP 200; and on_finished is never invoked
\* while the Complete or the Abort of the upload is outstanding.
C27_UploadEndsInOrder ==
    [] UploadEndsInOrder /\ [][UploadEndStep]_vars

\* A two-part upload that reported success after its CompleteMultipartUpload
\* succeeded, no abort having been issued and nothing being in flight.
C27_Witness ==
    /\ uploadState.numParts = 2
    /\ SucceededCompletes # {}
    /\ RequestsOf("abort") = {}
    /\ finishedCalls = << [error |-> AWS_ERROR_SUCCESS, numParts |-> 2] >>
    /\ AllDone

====
